---- MODULE Spec2Model ----
(***************************************************************************)
(* Agent state and sensor-pose synchronisation of habitat_sim.agent.Agent  *)
(* (src/habitat_sim/agent/agent.py).                                       *)
(*                                                                         *)
(* Lengths are in units of 0.5 m, angles in half turns, so that every pose *)
(* is an exact integer vector and every rotation a quaternion with integer *)
(* coefficients (the quaternion group {+-1, +-i, +-j, +-k}, which is not   *)
(* commutative).  A magnum quaternion is a record (vector, scalar); a      *)
(* numpy quaternion is the tuple <<w, x, y, z>>; a raw coefficient list is *)
(* the tuple <<x, y, z, w>>.                                               *)
(*                                                                         *)
(* The body node is a child of the scene's root, whose transform is the    *)
(* identity; every sensor node is a child of the body node.                *)
(***************************************************************************)
EXTENDS Integers, Sequences, FiniteSets, TLC

VARIABLES valid, agent_config, body, sensors, initial_state,
          gripped_object_id, gripped_object_transformation, scene, last,
          workload, rebuilt_with

vars == <<valid, agent_config, body, sensors, initial_state,
          gripped_object_id, gripped_object_transformation, scene, last,
          workload, rebuilt_with>>

\* What the driver keeps: its workload, and the configuration of the most
\* recent reconfigure call that rebuilt the sensors (a history variable).
history == <<workload, rebuilt_with>>

\* The agent's own fields, without the record of the last call.
agent == <<agent_config, body, sensors, initial_state,
           gripped_object_id, gripped_object_transformation, scene>>

NoValue == "None"

\* An Optional field: <<>> is None, <<v>> is the value v.
Nothing == <<>>

Some(v) == <<v>>

-----------------------------------------------------------------------------
(* Vectors and quaternions *)

VAdd(a, b) == <<a[1] + b[1], a[2] + b[2], a[3] + b[3]>>

VSub(a, b) == <<a[1] - b[1], a[2] - b[2], a[3] - b[3]>>

VScale(k, a) == <<k * a[1], k * a[2], k * a[3]>>

Dot(a, b) == a[1] * b[1] + a[2] * b[2] + a[3] * b[3]

Cross(a, b) == <<a[2] * b[3] - a[3] * b[2],
                 a[3] * b[1] - a[1] * b[3],
                 a[1] * b[2] - a[2] * b[1]>>

\* mn.Quaternion(vector, scalar)
MnQuat(v, s) == [vector |-> v, scalar |-> s]

MnIdentity == MnQuat(<<0, 0, 0>>, 1)

\* mn.Quaternion.__mul__ : the Hamilton product
MnMul(p, q) ==
    MnQuat(VAdd(VAdd(VScale(p.scalar, q.vector), VScale(q.scalar, p.vector)),
                Cross(p.vector, q.vector)),
           p.scalar * q.scalar - Dot(p.vector, q.vector))

MnConj(q) == MnQuat(VScale(-1, q.vector), q.scalar)

\* mn.Quaternion.transform_vector for a unit quaternion: q v q^-1
MnTransformVector(q, v) == MnMul(MnMul(q, MnQuat(v, 0)), MnConj(q)).vector

\* np.quaternion.__mul__ on <<w, x, y, z>>
NpMul(p, q) ==
    <<p[1] * q[1] - p[2] * q[2] - p[3] * q[3] - p[4] * q[4],
      p[1] * q[2] + p[2] * q[1] + p[3] * q[4] - p[4] * q[3],
      p[1] * q[3] - p[2] * q[4] + p[3] * q[1] + p[4] * q[2],
      p[1] * q[4] + p[2] * q[3] - p[3] * q[2] + p[4] * q[1]>>

NpNorm(q) == q[1] * q[1] + q[2] * q[2] + q[3] * q[3] + q[4] * q[4]

\* np.quaternion.inverse : the conjugate over the squared norm
NpInverse(q) ==
    <<q[1] \div NpNorm(q), (-q[2]) \div NpNorm(q),
      (-q[3]) \div NpNorm(q), (-q[4]) \div NpNorm(q)>>

\* habitat_sim.utils.common.quat_from_magnum
quat_from_magnum(q) == <<q.scalar, q.vector[1], q.vector[2], q.vector[3]>>

\* habitat_sim.utils.common.quat_to_magnum
quat_to_magnum(q) == MnQuat(<<q[2], q[3], q[4]>>, q[1])

\* habitat_sim.utils.common.quat_from_coeffs : coefficients come as [x, y, z, w]
quat_from_coeffs(c) == <<c[4], c[1], c[2], c[3]>>

\* habitat_sim.utils.common.quat_rotate_vector : (q * (0, v) * q^-1).imag
quat_rotate_vector(q, v) ==
    LET r == NpMul(NpMul(q, <<0, v[1], v[2], v[3]>>), NpInverse(q))
    IN  <<r[2], r[3], r[4]>>

\* A rotation as AgentState / SixDOFPose carry it: an np.quaternion or a list.
Quat(q) == [kind |-> "quaternion", c |-> q]

Coeffs(c) == [kind |-> "list", c |-> c]

-----------------------------------------------------------------------------
(* Scene-graph nodes *)

Node(t, r) == [translation |-> t, rotation |-> r]

\* SceneNode.reset_transformation
reset_transformation(n) == Node(<<0, 0, 0>>, MnIdentity)

\* SceneNode.translate
translate(n, v) == Node(VAdd(n.translation, v), n.rotation)

\* SceneNode.rotation setter
set_rotation(n, r) == Node(n.translation, r)

\* SceneNode.rotate_local : the rotation is applied in the node's own frame
rotate_local(n, r) == Node(n.translation, MnMul(n.rotation, r))

\* SceneNode.absolute_translation of a child of node b (b hangs off the root)
absolute_translation(b, n) ==
    VAdd(b.translation, MnTransformVector(b.rotation, n.translation))

-----------------------------------------------------------------------------
(* Sensors, specifications, configurations *)

XAxis == <<1, 0, 0>>

YAxis == <<0, 1, 0>>

ZAxis == <<0, 0, 1>>

\* mn.Quaternion.rotation(angle, axis) for an angle of n half turns
AngleQuat(n, axis) ==
    CASE n % 4 = 0 -> MnIdentity
      [] n % 4 = 1 -> MnQuat(axis, 0)
      [] n % 4 = 2 -> MnQuat(<<0, 0, 0>>, -1)
      [] n % 4 = 3 -> MnQuat(VScale(-1, axis), 0)

\* hsim.SensorSpec : uuid, position, orientation (half turns about x, y, z)
SensorSpec(uuid, position, orientation) ==
    [uuid |-> uuid, position |-> position, orientation |-> orientation]

\* Sensor.set_transformation_from_spec : reset, translate(spec.position),
\* rotateX, rotateY, rotateZ by spec.orientation
SpecNode(spec) ==
    Node(spec.position,
         MnMul(AngleQuat(spec.orientation[3], ZAxis),
               MnMul(AngleQuat(spec.orientation[2], YAxis),
                     AngleQuat(spec.orientation[1], XAxis))))

set_transformation_from_spec(s) == [spec |-> s.spec, node |-> SpecNode(s.spec)]

\* hsim.CameraSensor(self.scene_node.create_child(), spec)
CameraSensor(spec) == [spec |-> spec, node |-> SpecNode(spec)]

\* The sensor suite is a dict keyed by uuid, kept here in insertion order.
Names(suite) == {suite[i].spec.uuid : i \in DOMAIN suite}

IndexOf(suite, k) == CHOOSE i \in DOMAIN suite : suite[i].spec.uuid = k

\* SensorSuite.add : self._sensors[sensor.specification().uuid] = sensor
SuiteAdd(suite, s) ==
    IF s.spec.uuid \in Names(suite)
    THEN [suite EXCEPT ![IndexOf(suite, s.spec.uuid)] = s]
    ELSE Append(suite, s)

RECURSIVE AddAll(_, _, _)
AddAll(suite, specs, i) ==
    IF i > Len(specs) THEN suite
    ELSE AddAll(SuiteAdd(suite, CameraSensor(specs[i])), specs, i + 1)

ActionSpec(name, amount) == [name |-> name, amount |-> amount]

\* _default_action_space
default_action_space ==
    ("move_forward" :> ActionSpec("move_forward", 2)) @@
    ("turn_left" :> ActionSpec("turn_left", 1)) @@
    ("turn_right" :> ActionSpec("turn_right", 1))

\* An action space that also has a sensor action and the interact action.
full_action_space ==
    default_action_space @@
    ("look_up" :> ActionSpec("look_up", 1)) @@
    ("grab_release" :> ActionSpec("grab_release", 0))

AgentConfiguration(specs, space) ==
    [sensor_specifications |-> specs, action_space |-> space]

\* ObjectControls.is_body_action
is_body_action(name) == name \in {"move_forward", "turn_left", "turn_right"}

\* ObjectControls.is_interact_action
is_interact_action(name) == name \in {"grab_release"}

-----------------------------------------------------------------------------
(* Inputs *)

\* Half-width of the navigable strip: a body move leaving |z| <= ArenaZ is
\* stopped by the collision filter.
ArenaZ == 2

\* Number of objects the scene starts with.
MaxObjects == 2

ObjectIds == 0 .. (MaxObjects - 1)

\* The identifiers sim.add_object_by_handle can give to a placed object: one
\* that is free, or the next one never used.
NewObjectIds == 0 .. MaxObjects

RgbSpec == SensorSpec("rgba_camera", <<0, 3, 0>>, <<0, 0, 0>>)

SemSpec == SensorSpec("semantic_camera", <<0, 3, 0>>, <<0, 0, 0>>)

TiltSpec == SensorSpec("rgba_camera", <<0, 3, 0>>, <<1, 0, 0>>)

DefaultConfig == AgentConfiguration(<<RgbSpec>>, default_action_space)

PairConfig == AgentConfiguration(<<RgbSpec, SemSpec>>, full_action_space)

TiltConfig == AgentConfiguration(<<SemSpec, TiltSpec>>, full_action_space)

SemConfig == AgentConfiguration(<<SemSpec>>, default_action_space)

SixDOFPose(name, position, rotation) ==
    [name |-> name, position |-> position, rotation |-> rotation]

PoseA == SixDOFPose("rgba_camera", <<10, 3, 3>>, Quat(<<0, 1, 0, 0>>))

PoseB == SixDOFPose("semantic_camera", <<10, 4, 2>>, Coeffs(<<0, 0, 1, 0>>))

PoseC == SixDOFPose("depth_camera", <<0, 3, 0>>, Quat(<<1, 0, 0, 0>>))

AgentState(position, rotation, sensor_states) ==
    [position |-> position, rotation |-> rotation,
     sensor_states |-> sensor_states]

Identity == Quat(<<1, 0, 0, 0>>)

HalfTurnY == Quat(<<0, 0, 1, 0>>)

\* The driver's workloads.  Every workload calls every operation; each draws
\* one operation's arguments from a wide set and the others' from a narrow one.
Workloads == {"pose", "configure", "act"}

ConfigInputs(w) ==
    CASE w = "pose" -> {PairConfig}
      [] w = "configure" -> {DefaultConfig, PairConfig, TiltConfig, SemConfig}
      [] w = "act" -> {PairConfig}

ActionIds(w) ==
    CASE w = "pose" -> {"turn_left", "look_up", "undefined_action"}
      [] w = "configure" -> {"look_up", "undefined_action"}
      [] w = "act" -> DOMAIN full_action_space \cup {"undefined_action"}

\* place_agent's position (5, 0, 1) m, with the identity rotation
StateP1 == AgentState(<<10, 0, 2>>, Identity, <<>>)

\* one of two sensors named
StateP2 == AgentState(<<10, 0, 2>>, HalfTurnY, <<PoseA>>)

\* rotations given as coefficient lists, both sensors named
StateP3 == AgentState(<<0, 0, 0>>, Coeffs(<<0, 1, 0, 0>>), <<PoseB, PoseA>>)

\* a sensor that is never attached, named between two that may be
StateP4 == AgentState(<<0, 0, 0>>, Identity, <<PoseA, PoseC, PoseB>>)

SetStateCall(state, reset_sensors, infer_sensor_states, is_initial) ==
    [state |-> state, reset_sensors |-> reset_sensors,
     infer_sensor_states |-> infer_sensor_states, is_initial |-> is_initial]

\* The set_state calls made with a state the caller builds.
SetStateInputs(w) ==
    CASE w = "pose" ->
            { SetStateCall(s, rs, is, FALSE) :
                s \in {StateP1, StateP2, StateP3, StateP4},
                rs \in BOOLEAN, is \in BOOLEAN }
            \cup
            { SetStateCall(StateP4, rs, is, TRUE) :
                rs \in BOOLEAN, is \in BOOLEAN }
      [] w = "configure" ->
            { SetStateCall(StateP2, rs, is, ii) :
                rs \in BOOLEAN, is \in BOOLEAN, ii \in BOOLEAN }
      [] w = "act" ->
            { SetStateCall(StateP1, TRUE, TRUE, ii) : ii \in BOOLEAN }

-----------------------------------------------------------------------------
(* The record of the most recent call *)

\* What the simulator answered to an interact action: data["nearest_object_id"]
\* (-1 when the ray finds no object) and ray_hit_info.point (Nothing when no
\* floor position is found, or when the floor was not looked for).
SimAnswers(nearest_object_id, point) ==
    [nearest_object_id |-> nearest_object_id, point |-> point]

NoAnswers == SimAnswers(-1, Nothing)

\* ret is Nothing when the call raised or returned None, else Some(value).
Call(op, args, err, ret, invoked) ==
    [op |-> op, args |-> args, err |-> err, ret |-> ret, invoked |-> invoked,
     sim |-> NoAnswers]

\* The record of an interact action, with the simulator's answers.
InteractCall(action_id, ret, invoked, answers) ==
    [op |-> "act", args |-> action_id, err |-> "none", ret |-> ret,
     invoked |-> invoked, sim |-> answers]

\* The value a call returned.
Returned(c) == c.ret[1]

NoError == "none"

\* habitat_sim.errors.assert_obj_valid(self.body) fails: it is the first
\* statement of every operation, so the arguments are never looked at.
Invalid(op) ==
    /\ ~valid
    /\ last' = Call(op, NoValue, "InvalidObjectError", Nothing, {})
    /\ UNCHANGED <<valid, agent, history>>

-----------------------------------------------------------------------------
(* Agent.__init__ *)

Init ==
    /\ workload \in Workloads
    /\ valid = TRUE
    /\ agent_config \in ConfigInputs(workload)
    /\ body = Node(<<0, 0, 0>>, MnIdentity)
    /\ sensors = AddAll(<<>>, agent_config.sensor_specifications, 1)
    /\ initial_state = Nothing
    /\ gripped_object_id = -1
    /\ gripped_object_transformation = Nothing
    /\ scene = ObjectIds
    /\ last = Call("__init__", NoValue, NoError, Nothing, {})
    /\ rebuilt_with = agent_config

-----------------------------------------------------------------------------
(* Agent.reconfigure *)

\* Mutant: the new sensors are added without clearing the suite first.
ReconfiguredSensors_NoClear(suite, config, reconfigure_sensors) ==
    IF reconfigure_sensors
    THEN AddAll(suite, config.sensor_specifications, 1)
    ELSE suite

\* Mutant: the sensors are rebuilt whatever the flag says.
ReconfiguredSensors_Always(suite, config, reconfigure_sensors) ==
    AddAll(<<>>, config.sensor_specifications, 1)

\* lines 146-151
ReconfiguredSensors(suite, config, reconfigure_sensors) ==
    IF reconfigure_sensors
    THEN AddAll(<<>>, config.sensor_specifications, 1)
    ELSE suite

ReconfigureArgs(config, reconfigure_sensors) ==
    [agent_config |-> config, reconfigure_sensors |-> reconfigure_sensors]

\* lines 144-151, the body is valid
reconfigure_valid(config, reconfigure_sensors) ==
    /\ valid
    /\ agent_config' = config
    /\ sensors' = ReconfiguredSensors(sensors, config, reconfigure_sensors)
    /\ last' = Call("reconfigure", ReconfigureArgs(config, reconfigure_sensors),
                    NoError, Nothing, {})
    /\ rebuilt_with' = IF reconfigure_sensors THEN config ELSE rebuilt_with
    /\ UNCHANGED <<valid, body, initial_state, gripped_object_id,
                   gripped_object_transformation, scene, workload>>

\* Mutant: the configuration is stored before the body is checked.
reconfigure_LateCheck(config, reconfigure_sensors) ==
    \/ /\ ~valid
       /\ agent_config' = config
       /\ last' = Call("reconfigure", NoValue, "InvalidObjectError", Nothing, {})
       /\ UNCHANGED <<valid, body, sensors, initial_state, gripped_object_id,
                      gripped_object_transformation, scene, history>>
    \/ reconfigure_valid(config, reconfigure_sensors)

reconfigure(config, reconfigure_sensors) ==
    \/ Invalid("reconfigure")
    \/ reconfigure_valid(config, reconfigure_sensors)

-----------------------------------------------------------------------------
(* Agent.get_state *)

\* Mutant: the rotations are composed in the other order.
SensorPose_Swapped(b, s) ==
    SixDOFPose(s.spec.uuid,
               absolute_translation(b, s.node),
               Quat(quat_from_magnum(MnMul(s.node.rotation, b.rotation))))

\* lines 242-245
SensorPose(b, s) ==
    SixDOFPose(s.spec.uuid,
               absolute_translation(b, s.node),
               Quat(quat_from_magnum(MnMul(b.rotation, s.node.rotation))))

\* lines 236-249
GetStateOf(b, suite) ==
    AgentState(b.translation,
               Quat(quat_from_magnum(b.rotation)),
               [i \in DOMAIN suite |-> SensorPose(b, suite[i])])

get_state ==
    \/ Invalid("get_state")
    \/ /\ valid
       /\ last' = Call("get_state", NoValue, NoError,
                       Some(GetStateOf(body, sensors)), {})
       /\ UNCHANGED <<valid, agent, history>>

-----------------------------------------------------------------------------
(* Agent.set_state *)

\* state.rotation / v.rotation after the isinstance(..., list) conversion
AsQuaternion(r) == IF r.kind = "list" THEN quat_from_coeffs(r.c) ELSE r.c

\* lines 283-286: reset, translate by state.position, set the rotation
PlaceBody(b, position, rotation) ==
    set_rotation(translate(reset_transformation(b), position),
                 quat_to_magnum(rotation))

\* Mutant: the reset pass is skipped.
ResetSensors_Skip(suite, reset_sensors) == suite

\* lines 288-290
ResetSensors(suite, reset_sensors) ==
    IF reset_sensors
    THEN [i \in DOMAIN suite |-> set_transformation_from_spec(suite[i])]
    ELSE suite

\* Mutant: the sensor's world position is not made relative to the base.
PlaceSensorNode_NoOffset(n, position, rotation, v) ==
    set_rotation(
        translate(reset_transformation(n),
                  quat_rotate_vector(NpInverse(rotation), v.position)),
        quat_to_magnum(NpMul(NpInverse(rotation), AsQuaternion(v.rotation))))

\* Mutant: the base rotation is applied instead of its inverse.
PlaceSensorNode_NoInverse(n, position, rotation, v) ==
    set_rotation(
        translate(reset_transformation(n),
                  quat_rotate_vector(rotation, VSub(v.position, position))),
        quat_to_magnum(NpMul(rotation, AsQuaternion(v.rotation))))

\* lines 300-306: the sensor node's transform for the pose v, given the state's
\* position and (converted) rotation
PlaceSensorNode(n, position, rotation, v) ==
    set_rotation(
        translate(reset_transformation(n),
                  quat_rotate_vector(NpInverse(rotation),
                                     VSub(v.position, position))),
        quat_to_magnum(NpMul(NpInverse(rotation), AsQuaternion(v.rotation))))

\* lines 293-306: the loop over state.sensor_states, from entry i on; it stops
\* at the first name that is not attached
RECURSIVE PlaceSensors(_, _, _, _, _)
PlaceSensors(suite, position, rotation, entries, i) ==
    IF i > Len(entries)
    THEN [sensors |-> suite, entries |-> entries, err |-> NoError]
    ELSE IF entries[i].name \notin Names(suite)
    THEN [sensors |-> suite, entries |-> entries, err |-> "UnknownSensorError"]
    ELSE LET k == IndexOf(suite, entries[i].name)
             placed == [suite EXCEPT ![k].node =
                           PlaceSensorNode(suite[k].node, position, rotation,
                                           entries[i])]
             converted == [entries EXCEPT ![i].rotation =
                              Quat(AsQuaternion(entries[i].rotation))]
         IN  PlaceSensors(placed, position, rotation, converted, i + 1)

\* Mutant: the placement pass runs whatever infer_sensor_states says.
ExplicitSensors_Always(suite, position, rotation, entries, infer_sensor_states) ==
    PlaceSensors(suite, position, rotation, entries, 1)

\* lines 292-306
ExplicitSensors(suite, position, rotation, entries, infer_sensor_states) ==
    IF infer_sensor_states
    THEN [sensors |-> suite, entries |-> entries, err |-> NoError]
    ELSE PlaceSensors(suite, position, rotation, entries, 1)

\* Mutant: the state is recorded although the call failed.
RecordInitial_Always(old, state, err, is_initial) ==
    IF is_initial THEN Some(state) ELSE old

\* lines 308-309
RecordInitial(old, state, err, is_initial) ==
    IF is_initial /\ err = NoError THEN Some(state) ELSE old

set_state(state, reset_sensors, infer_sensor_states, is_initial) ==
    LET args == SetStateCall(state, reset_sensors, infer_sensor_states,
                             is_initial)
        rotation == AsQuaternion(state.rotation)
        r == ExplicitSensors(ResetSensors(sensors, reset_sensors),
                             state.position, rotation, state.sensor_states,
                             infer_sensor_states)
        mutated == AgentState(state.position, Quat(rotation), r.entries)
    IN  \/ Invalid("set_state")
        \/ /\ valid
           /\ body' = PlaceBody(body, state.position, rotation)
           /\ sensors' = r.sensors
           /\ initial_state' =
                  RecordInitial(initial_state, mutated, r.err, is_initial)
           /\ last' = Call("set_state", args, r.err, Nothing, {})
           /\ UNCHANGED <<valid, agent_config, gripped_object_id,
                          gripped_object_transformation, scene, history>>

\* The set_state calls a caller makes: with a state it builds, or with the
\* state get_state has just returned.
SetStateCalls ==
    SetStateInputs(workload) \cup
    (IF last.op = "get_state" /\ last.err = NoError /\ workload # "act"
     THEN { SetStateCall(Returned(last), rs, is, FALSE) :
              rs \in BOOLEAN, is \in BOOLEAN }
     ELSE {})

-----------------------------------------------------------------------------
(* Agent.act *)

Abs(x) == IF x < 0 THEN -x ELSE x

\* ObjectControls.action on the body node with apply_filter=True: the move is
\* made in the node's frame and the filter stops it at the arena's edge.
BodyControl(n, spec) ==
    LET moved == translate(n, MnTransformVector(n.rotation,
                                                <<0, 0, -spec.amount>>))
    IN  CASE spec.name = "move_forward" ->
                IF Abs(moved.translation[3]) > ArenaZ
                THEN [node |-> n, collided |-> TRUE]
                ELSE [node |-> moved, collided |-> FALSE]
          [] spec.name = "turn_left" ->
                [node |-> rotate_local(n, AngleQuat(spec.amount, YAxis)),
                 collided |-> FALSE]
          [] spec.name = "turn_right" ->
                [node |-> rotate_local(n, AngleQuat(4 - spec.amount, YAxis)),
                 collided |-> FALSE]

\* ObjectControls.action on a sensor node with apply_filter=False
SensorControl(n, spec) == rotate_local(n, AngleQuat(spec.amount, XAxis))

\* lines 226-230
ActOnSensors(suite, spec) ==
    [i \in DOMAIN suite |->
        [spec |-> suite[i].spec, node |-> SensorControl(suite[i].node, spec)]]

InteractCalls == {"sim.unproject", "sim.get_crosshair_position",
                  "controls.action"}

\* Mutant: without the membership check an unknown identifier falls through
\* to the sensor branch.
act_unknown_FallThrough(action_id) ==
    /\ valid
    /\ action_id \notin DOMAIN agent_config.action_space
    /\ sensors' = ActOnSensors(sensors, ActionSpec(action_id, 1))
    /\ last' = Call("act", action_id, NoError, Some(FALSE), {"controls.action"})
    /\ UNCHANGED <<valid, agent_config, body, initial_state,
                   gripped_object_id, gripped_object_transformation, scene,
                   history>>

\* lines 162-164
act_unknown(action_id) ==
    /\ valid
    /\ action_id \notin DOMAIN agent_config.action_space
    /\ last' = Call("act", action_id, "UnknownActionError", Nothing, {})
    /\ UNCHANGED <<valid, agent, history>>

act_body(action_id) ==
    /\ valid
    /\ action_id \in DOMAIN agent_config.action_space
    /\ LET action == agent_config.action_space[action_id]
           r == BodyControl(body, action)
       IN  /\ is_body_action(action.name)
           /\ body' = r.node
           /\ last' = Call("act", action_id, NoError, Some(r.collided),
                           {"controls.action"})
    /\ UNCHANGED <<valid, agent_config, sensors, initial_state,
                   gripped_object_id, gripped_object_transformation, scene,
                   history>>

\* The floor position under the crosshair, when there is one: the point of
\* the floor the body stands over.
FloorPoint(b) == <<b.translation[1], 0, b.translation[3]>>

\* lines 188-195: an object is held and the ray finds no floor
act_no_floor(action_id, nearest_object_id) ==
    /\ gripped_object_id # -1
    /\ last' = InteractCall(action_id, Some(TRUE),
                            InteractCalls \cup
                                {"sim.find_floor_position_under_crosshair"},
                            SimAnswers(nearest_object_id, Nothing))
    /\ UNCHANGED <<valid, agent, history>>

\* lines 188-218: an object is held and is put down as the new object new_id
act_place(action_id, nearest_object_id, new_id) ==
    /\ gripped_object_id # -1
    /\ new_id \notin scene
    /\ scene' = scene \cup {new_id}
    /\ gripped_object_id' = -1
    /\ last' = InteractCall(action_id, Some(FALSE),
                            InteractCalls \cup
                                {"sim.find_floor_position_under_crosshair",
                                 "sim.get_object_from_scene",
                                 "sim.add_object_by_handle",
                                 "sim.set_translation", "sim.contact_test",
                                 "sim.update_object_in_scene"},
                            SimAnswers(nearest_object_id,
                                       Some(FloorPoint(body))))
    /\ UNCHANGED <<valid, agent_config, body, sensors, initial_state,
                   gripped_object_transformation, history>>

\* Mutant: the ray's object is looked at before the hand, so an object found
\* while another is held replaces it.
act_pick_Regrab(action_id, nearest_object_id) ==
    /\ nearest_object_id # -1
    /\ gripped_object_transformation' = Some([object |-> nearest_object_id])
    /\ scene' = scene \ {nearest_object_id}
    /\ gripped_object_id' = nearest_object_id
    /\ last' = InteractCall(action_id, Some(FALSE),
                            InteractCalls \cup
                                {"sim.get_transformation", "sim.remove_object"},
                            SimAnswers(nearest_object_id, Nothing))
    /\ UNCHANGED <<valid, agent_config, body, sensors, initial_state,
                   history>>

\* lines 219-224: nothing is held and the ray finds nearest_object_id
act_pick(action_id, nearest_object_id) ==
    /\ gripped_object_id = -1
    /\ nearest_object_id # -1
    /\ gripped_object_transformation' = Some([object |-> nearest_object_id])
    /\ scene' = scene \ {nearest_object_id}
    /\ gripped_object_id' = nearest_object_id
    /\ last' = InteractCall(action_id, Some(FALSE),
                            InteractCalls \cup
                                {"sim.get_transformation", "sim.remove_object"},
                            SimAnswers(nearest_object_id, Nothing))
    /\ UNCHANGED <<valid, agent_config, body, sensors, initial_state,
                   history>>

\* nothing is held and the ray finds nothing
act_miss(action_id, nearest_object_id) ==
    /\ gripped_object_id = -1
    /\ nearest_object_id = -1
    /\ last' = InteractCall(action_id, Some(FALSE), InteractCalls,
                            SimAnswers(nearest_object_id, Nothing))
    /\ UNCHANGED <<valid, agent, history>>

\* lines 172-224: the ray finds an object of the live scene, or none
act_interact(action_id) ==
    /\ valid
    /\ action_id \in DOMAIN agent_config.action_space
    /\ ~is_body_action(agent_config.action_space[action_id].name)
    /\ is_interact_action(agent_config.action_space[action_id].name)
    /\ \E nearest_object_id \in scene \cup {-1} :
          \/ act_no_floor(action_id, nearest_object_id)
          \/ \E new_id \in NewObjectIds :
                act_place(action_id, nearest_object_id, new_id)
          \/ act_pick(action_id, nearest_object_id)
          \/ act_miss(action_id, nearest_object_id)

act_sensors(action_id) ==
    /\ valid
    /\ action_id \in DOMAIN agent_config.action_space
    /\ LET action == agent_config.action_space[action_id]
       IN  /\ ~is_body_action(action.name)
           /\ ~is_interact_action(action.name)
           /\ sensors' = ActOnSensors(sensors, action)
           /\ last' = Call("act", action_id, NoError, Some(FALSE),
                           IF sensors = <<>> THEN {} ELSE {"controls.action"})
    /\ UNCHANGED <<valid, agent_config, body, initial_state,
                   gripped_object_id, gripped_object_transformation, scene,
                   history>>

act(action_id) ==
    \/ Invalid("act")
    \/ act_unknown(action_id)
    \/ act_body(action_id)
    \/ act_interact(action_id)
    \/ act_sensors(action_id)

-----------------------------------------------------------------------------
(* The owner of the scene graph is deallocated (class docstring, lines 95-100) *)

destroy ==
    /\ valid
    /\ valid' = FALSE
    /\ last' = Call("destroy", NoValue, NoError, Nothing, {})
    /\ UNCHANGED <<agent, history>>

-----------------------------------------------------------------------------

Next ==
    \/ \E config \in ConfigInputs(workload), reconfigure_sensors \in BOOLEAN :
          reconfigure(config, reconfigure_sensors)
    \/ \E action_id \in ActionIds(workload) : act(action_id)
    \/ get_state
    \/ \E c \in SetStateCalls :
          set_state(c.state, c.reset_sensors, c.infer_sensor_states,
                    c.is_initial)
    \/ destroy

Spec == Init /\ [][Next]_vars

-----------------------------------------------------------------------------
(* Vocabulary of the properties *)

\* The step is a call of op that got past the validity check of the body.
Called(op) == valid /\ last'.op = op

\* The sensor's transform is the default its specification gives.
AtDefault(s) ==
    /\ s.node.translation = s.spec.position
    /\ s.node.rotation =
          MnMul(AngleQuat(s.spec.orientation[3], ZAxis),
                MnMul(AngleQuat(s.spec.orientation[2], YAxis),
                      AngleQuat(s.spec.orientation[1], XAxis)))

\* The names state.sensor_states has.
Named(state) == {state.sensor_states[i].name : i \in DOMAIN state.sensor_states}

\* The rotation r as a quaternion <<w, x, y, z>>, a list being [x, y, z, w].
GivenRotation(r) ==
    Quat(IF r.kind = "list" THEN <<r.c[4], r.c[1], r.c[2], r.c[3]>> ELSE r.c)

\* The pose state.sensor_states gives for name k, its rotation as a quaternion.
Given(state, k) ==
    LET e == state.sensor_states[
                 CHOOSE i \in DOMAIN state.sensor_states :
                    state.sensor_states[i].name = k]
    IN  SixDOFPose(k, e.position, GivenRotation(e.rotation))

\* What a get_state() made in the state after the step reports for sensor i.
ReportedAfter(i) == GetStateOf(body', sensors').sensor_states[i]

\* The world pose of sensor s under body b, computed with numpy quaternions.
WorldPose(b, s) ==
    SixDOFPose(s.spec.uuid,
               VAdd(b.translation,
                    quat_rotate_vector(quat_from_magnum(b.rotation),
                                       s.node.translation)),
               Quat(NpMul(quat_from_magnum(b.rotation),
                          quat_from_magnum(s.node.rotation))))

\* The step is set_state(s) with s the state the preceding get_state returned.
RoundTrip ==
    /\ valid
    /\ last.op = "get_state"
    /\ last.err = NoError
    /\ last'.op = "set_state"
    /\ last'.args.state = Returned(last)

SpecNames(config) ==
    {config.sensor_specifications[i].uuid :
        i \in DOMAIN config.sensor_specifications}

-----------------------------------------------------------------------------
(* C1 *)

\* C1 as stated: s = get_state(); set_state(s) with its default flags
\* (reset_sensors and infer_sensor_states true); get_state() then yields s
\* again, base pose and every sensor pose.
C1_Original ==
    [][(RoundTrip /\ last'.args.reset_sensors /\ last'.args.infer_sensor_states)
          => GetStateOf(body', sensors') = Returned(last)]_vars

\* C1 amended: set_state(get_state()) always reproduces the base pose; it
\* reproduces every sensor pose when reset_sensors or infer_sensor_states is
\* false, or when every sensor was at its specification's default; with both
\* flags true every sensor ends at its default instead.
C1_RoundTrip ==
    [][RoundTrip =>
          /\ last'.err = NoError
          /\ GetStateOf(body', sensors').position = Returned(last).position
          /\ GetStateOf(body', sensors').rotation = Returned(last).rotation
          /\ (\/ ~last'.args.reset_sensors
              \/ ~last'.args.infer_sensor_states
              \/ \A i \in DOMAIN sensors : AtDefault(sensors[i]))
                => GetStateOf(body', sensors') = Returned(last)
          /\ (last'.args.reset_sensors /\ last'.args.infer_sensor_states)
                => \A i \in DOMAIN sensors' : AtDefault(sensors'[i])]_vars

\* A state read with a sensor off its default and a turned, moved base has
\* been reapplied with explicit sensor placement.
C1_Witness ==
    /\ last.op = "set_state"
    /\ last.err = NoError
    /\ ~last.args.infer_sensor_states
    /\ last.args.state = GetStateOf(body, sensors)
    /\ body.translation # <<0, 0, 0>>
    /\ body.rotation # MnIdentity
    /\ Len(sensors) = 2
    /\ \E i \in DOMAIN sensors : ~AtDefault(sensors[i])

-----------------------------------------------------------------------------
(* C2 *)

\* C2 as stated: after any set_state call made with reset_sensors=true every
\* attached sensor's transform equals the default of its specification.
C2_Original ==
    [][(Called("set_state") /\ last'.args.reset_sensors)
          => \A i \in DOMAIN sensors' : AtDefault(sensors'[i])]_vars

\* C2 amended: after any set_state call made with reset_sensors=true every
\* attached sensor's transform equals the default of its specification,
\* whatever it was before, unless infer_sensor_states is false and
\* state.sensor_states names the sensor.
C2_ResetToDefault ==
    [][(Called("set_state") /\ last'.args.reset_sensors)
          => \A i \in DOMAIN sensors' :
                (\/ last'.args.infer_sensor_states
                 \/ sensors'[i].spec.uuid \notin Named(last'.args.state))
                   => AtDefault(sensors'[i])]_vars

\* The scenario: a sensor configured at (0, 1.5, 0) m without rotation, base
\* set to (5, 0, 1) m with identity rotation, sensor then at (5, 1.5, 1) m.
C2_Witness ==
    /\ last.op = "set_state"
    /\ last.err = NoError
    /\ last.args.reset_sensors
    /\ last.args.state.position = <<10, 0, 2>>
    /\ last.args.state.rotation = Identity
    /\ \E i \in DOMAIN sensors :
          /\ sensors[i].spec.position = <<0, 3, 0>>
          /\ sensors[i].spec.orientation = <<0, 0, 0>>
          /\ GetStateOf(body, sensors).sensor_states[i].position = <<10, 3, 2>>

-----------------------------------------------------------------------------
(* C3 *)

\* C3: set_state with infer_sensor_states=false and a state naming a sensor
\* that is not attached fails with UnknownSensorError; the base pose of the
\* state stays applied, and the state is not recorded as the initial state.
C3_UnknownSensor ==
    [][(/\ Called("set_state")
        /\ ~last'.args.infer_sensor_states
        /\ Named(last'.args.state) \ Names(sensors) # {})
          => /\ last'.err = "UnknownSensorError"
             /\ GetStateOf(body', sensors').position = last'.args.state.position
             /\ GetStateOf(body', sensors').rotation =
                   GivenRotation(last'.args.state.rotation)
             /\ initial_state' = initial_state]_vars

\* Such a call was made with is_initial=true: it failed, the base moved, no
\* initial state is recorded.
C3_Witness ==
    /\ last.op = "set_state"
    /\ last.err = "UnknownSensorError"
    /\ last.args.is_initial
    /\ initial_state = Nothing
    /\ body.translation = last.args.state.position
    /\ Named(last.args.state) \ Names(sensors) # {}

-----------------------------------------------------------------------------
(* C4 *)

\* C4: act with an identifier that is no key of agent_config.action_space
\* fails with UnknownActionError, changes nothing of the agent or the scene,
\* and invokes no control action and no simulator callback.
C4_UnknownAction ==
    [][(Called("act") /\ last'.args \notin DOMAIN agent_config.action_space)
          => /\ last'.err = "UnknownActionError"
             /\ agent' = agent
             /\ last'.invoked = {}]_vars

\* act("undefined_action") was called on the default action space.
C4_Witness ==
    /\ last.op = "act"
    /\ last.args = "undefined_action"
    /\ last.err = "UnknownActionError"
    /\ DOMAIN agent_config.action_space =
          {"move_forward", "turn_left", "turn_right"}

-----------------------------------------------------------------------------
(* C5 *)

\* C5: once the body node is invalid, reconfigure, act, get_state and
\* set_state (the state getter and setter are the last two) raise
\* InvalidObjectError and change nothing of the agent.
C5_InvalidBody ==
    [][(~valid /\ last'.op \in {"reconfigure", "act", "get_state", "set_state"})
          => /\ last'.err = "InvalidObjectError"
             /\ agent' = agent
             /\ ~valid']_vars

\* reconfigure was called on an agent whose body is invalid.
C5_Witness ==
    /\ ~valid
    /\ last.op = "reconfigure"
    /\ last.err = "InvalidObjectError"

-----------------------------------------------------------------------------
(* C6 *)

\* C6: get_state changes no transform and returns, for every attached sensor,
\* the sensor node's absolute position and (base rotation) * (local
\* rotation); with an identity local rotation that is the base rotation.
C6_GetState ==
    [][Called("get_state")
          => /\ last'.err = NoError
             /\ agent' = agent
             /\ Returned(last').position = body.translation
             /\ Returned(last').rotation = Quat(quat_from_magnum(body.rotation))
             /\ DOMAIN Returned(last').sensor_states = DOMAIN sensors
             /\ \A i \in DOMAIN sensors :
                   /\ Returned(last').sensor_states[i] = WorldPose(body, sensors[i])
                   /\ sensors[i].node.rotation = MnIdentity
                         => Returned(last').sensor_states[i].rotation =
                               Returned(last').rotation]_vars

\* get_state was called with a turned base, one sensor at identity local
\* rotation and one whose local rotation does not commute with the base's.
C6_Witness ==
    /\ last.op = "get_state"
    /\ last.err = NoError
    /\ body.rotation = MnQuat(YAxis, 0)
    /\ \E i, j \in DOMAIN sensors :
          /\ sensors[i].node.rotation = MnIdentity
          /\ MnMul(body.rotation, sensors[j].node.rotation) #
                MnMul(sensors[j].node.rotation, body.rotation)

-----------------------------------------------------------------------------
(* C7 *)

\* C7: reconfigure stores the configuration and leaves the base pose; with
\* reconfigure_sensors=true the sensors are then one new sensor per entry of
\* config.sensor_specifications, in list order, and none of the old ones;
\* with reconfigure_sensors=false the sensors are those from before, with
\* their transforms.
C7_Reconfigure ==
    [][Called("reconfigure")
          => /\ last'.err = NoError
             /\ agent_config' = last'.args.agent_config
             /\ body' = body
             /\ IF last'.args.reconfigure_sensors
                THEN /\ Len(sensors') =
                           Len(last'.args.agent_config.sensor_specifications)
                     /\ \A i \in DOMAIN sensors' :
                           /\ sensors'[i].spec =
                                 last'.args.agent_config.sensor_specifications[i]
                           /\ AtDefault(sensors'[i])
                ELSE sensors' = sensors]_vars

\* The sensors were rebuilt for a two-sensor configuration while the base was
\* away from the origin and turned.
C7_Witness ==
    /\ last.op = "reconfigure"
    /\ last.err = NoError
    /\ last.args.reconfigure_sensors
    /\ Len(last.args.agent_config.sensor_specifications) = 2
    /\ body.translation # <<0, 0, 0>>
    /\ body.rotation # MnIdentity

-----------------------------------------------------------------------------
(* C8 *)

\* C8 as stated: with reset_sensors and infer_sensor_states both true, every
\* attached sensor named in state.sensor_states is placed as the state says.
C8_Original ==
    [][(/\ Called("set_state")
        /\ last'.err = NoError
        /\ last'.args.reset_sensors
        /\ last'.args.infer_sensor_states)
          => \A i \in DOMAIN sensors' :
                sensors'[i].spec.uuid \in Named(last'.args.state)
                   => ReportedAfter(i) =
                         Given(last'.args.state, sensors'[i].spec.uuid)]_vars

\* C8 amended: the mixed outcome is that of reset_sensors=true with
\* infer_sensor_states=false: the sensors named in state.sensor_states are
\* placed as the state says, after the reset, and the others are at their
\* default.  With both flags true the placement pass does not run and every
\* sensor is at its default.
C8_MixedOutcome ==
    [][(/\ Called("set_state")
        /\ last'.err = NoError
        /\ last'.args.reset_sensors)
          => \A i \in DOMAIN sensors' :
                IF /\ ~last'.args.infer_sensor_states
                   /\ sensors'[i].spec.uuid \in Named(last'.args.state)
                THEN ReportedAfter(i) =
                        Given(last'.args.state, sensors'[i].spec.uuid)
                ELSE AtDefault(sensors'[i])]_vars

\* A mixed outcome: reset_sensors=true, infer_sensor_states=false, one sensor
\* named and placed off its default, another not named and at its default.
C8_Witness ==
    /\ last.op = "set_state"
    /\ last.err = NoError
    /\ last.args.reset_sensors
    /\ ~last.args.infer_sensor_states
    /\ \E i, j \in DOMAIN sensors :
          /\ sensors[i].spec.uuid \in Named(last.args.state)
          /\ ~AtDefault(sensors[i])
          /\ sensors[j].spec.uuid \notin Named(last.args.state)
          /\ AtDefault(sensors[j])

-----------------------------------------------------------------------------
(* C9 *)

\* C9: after a successful set_state(state, infer_sensor_states=false) a
\* get_state() reports, for every sensor named in state.sensor_states, the
\* world position and rotation the state gives (its node holding that pose in
\* the new base frame); a sensor not named is at its default if reset_sensors
\* is true and keeps its relative transform if it is false.
C9_ExplicitPlacement ==
    [][(/\ Called("set_state")
        /\ last'.err = NoError
        /\ ~last'.args.infer_sensor_states)
          => \A i \in DOMAIN sensors' :
                IF sensors'[i].spec.uuid \in Named(last'.args.state)
                THEN LET g == Given(last'.args.state, sensors'[i].spec.uuid)
                     IN  /\ ReportedAfter(i) = g
                         /\ sensors'[i].node.translation =
                               MnTransformVector(
                                   MnConj(body'.rotation),
                                   VSub(g.position, body'.translation))
                         /\ sensors'[i].node.rotation =
                               MnMul(MnConj(body'.rotation),
                                     MnQuat(<<g.rotation.c[2], g.rotation.c[3],
                                              g.rotation.c[4]>>,
                                            g.rotation.c[1]))
                ELSE IF last'.args.reset_sensors
                THEN AtDefault(sensors'[i])
                ELSE sensors'[i] = sensors[i]]_vars

\* reset_sensors=false, infer_sensor_states=false: a named sensor is placed
\* under a turned base, and another, not named, keeps a transform that is not
\* its default.
C9_Witness ==
    /\ last.op = "set_state"
    /\ last.err = NoError
    /\ ~last.args.reset_sensors
    /\ ~last.args.infer_sensor_states
    /\ body.rotation # MnIdentity
    /\ \E i, j \in DOMAIN sensors :
          /\ sensors[i].spec.uuid \in Named(last.args.state)
          /\ GetStateOf(body, sensors).sensor_states[i] =
                Given(last.args.state, sensors[i].spec.uuid)
          /\ sensors[j].spec.uuid \notin Named(last.args.state)
          /\ ~AtDefault(sensors[j])

-----------------------------------------------------------------------------
(* C10 *)

\* C10 as stated: every attached sensor's name is in the sensor_specifications
\* of the configuration passed to the most recent reconfigure call (the
\* constructor's included), which is agent_config.
C10_Original == valid => Names(sensors) \subseteq SpecNames(agent_config)

\* C10 amended: every attached sensor's name is in the sensor_specifications
\* of the configuration passed to the most recent reconfigure call made with
\* reconfigure_sensors=true (the constructor's included), and the attached
\* names are exactly those.
C10_AttachedNames == Names(sensors) = SpecNames(rebuilt_with)

\* The configuration was replaced without rebuilding the sensors, and an
\* attached sensor is not in the new configuration.
C10_Witness ==
    /\ last.op = "reconfigure"
    /\ last.err = NoError
    /\ ~last.args.reconfigure_sensors
    /\ rebuilt_with # agent_config
    /\ Names(sensors) \ SpecNames(agent_config) # {}

-----------------------------------------------------------------------------
(* C11 *)

\* An object is held.
Held == gripped_object_id # -1

\* The step is an act call on a valid body whose action is an interact action.
Interacted ==
    /\ Called("act")
    /\ last'.err = NoError
    /\ last'.args \in DOMAIN agent_config.action_space
    /\ is_interact_action(agent_config.action_space[last'.args].name)

\* The object the ray found, -1 for none.
Nearest == last'.sim.nearest_object_id

\* C11: over any sequence of steps picking and placing alternate. The held
\* record names at most one object, which is not in the live scene. When
\* nothing is held and the ray of an interact action finds a nearest object,
\* that object leaves the scene and is recorded as held, and when the ray
\* finds none nothing changes; only such a step makes the agent hold an
\* object. While an object is held no step replaces it by another or removes
\* an object from the scene. A held object is released only by an interact
\* action for which a floor position was found and the placement committed,
\* which adds exactly one object to the scene, and the scene grows in no
\* other way. When an object is held and no floor position is found, act
\* returns true, the same object stays held and the scene is unchanged.
C11_PickPlace ==
    [][/\ gripped_object_id' \in scene \cup {gripped_object_id, -1}
       /\ gripped_object_id' # -1 => gripped_object_id' \notin scene'
       /\ (Interacted /\ ~Held /\ Nearest # -1)
             => /\ Nearest \in scene
                /\ gripped_object_id' = Nearest
                /\ scene' = scene \ {Nearest}
       /\ (Interacted /\ ~Held /\ Nearest = -1)
             => UNCHANGED <<gripped_object_id, scene>>
       /\ (~Held /\ gripped_object_id' # -1) => Interacted
       /\ (Held /\ gripped_object_id' # -1)
             => UNCHANGED <<gripped_object_id, scene>>
       /\ (Held /\ gripped_object_id' = -1)
             => /\ Interacted
                /\ last'.sim.point # Nothing
                /\ "sim.update_object_in_scene" \in last'.invoked
                /\ scene \subseteq scene'
                /\ Cardinality(scene' \ scene) = 1
       /\ (scene' \ scene # {}) => (Held /\ gripped_object_id' = -1)
       /\ (Interacted /\ Held /\ last'.sim.point = Nothing)
             => /\ Returned(last') = TRUE
                /\ UNCHANGED <<gripped_object_id, scene>>]_vars

\* An object was picked, put down as a new object and another one picked;
\* then, with that one held, an interact action whose ray found one more
\* object found no floor position.
C11_Witness ==
    /\ last.op = "act"
    /\ last.err = NoError
    /\ is_interact_action(agent_config.action_space[last.args].name)
    /\ Held
    /\ MaxObjects \in scene
    /\ last.sim.nearest_object_id \in scene
    /\ last.sim.point = Nothing
    /\ Returned(last) = TRUE

====
